---- MODULE Spec2Model ----
\* The delivery fabric of the oscar server: the drop-box store and its REST
\* handlers (drop_boxes.go), the drop-box pub/sub bus, and the two socket
\* session implementations, packageListener (drop_boxes.go) and socketServer.
EXTENDS Integers, Sequences, FiniteSets, TLC

\* ------------------------------------------------------------------ bounds
\* number of REST write requests (PUT or multipart) a behaviour may hold
MaxWrites == 2
\* number of subscriptions (Sub calls on the drop-box bus) a behaviour may hold
MaxSubs == 2
\* number of frames a client sends on one socket
MaxCmds == 3
\* number of client inputs (write requests and socket frames) of a behaviour
\* with a packageListener session
MaxInputs == 3
\* number of write requests of a behaviour with a socketServer session
MaxWritesSS == 1
\* number of user messages published
MaxMsgs == 2
\* number of write requests of a behaviour that fills a subscriber's queue
MaxPuts == 6

\* --------------------------------------------------------------- constants
dropBoxIDSize == 16

\* ------------------------------------------------------------------- data
\* Byte strings used as box ids: two of 16 bytes and one of 15 bytes.
BoxIDs == {"id1", "id2"}
ShortID == "id0"
NoBytes == "nil"

ByteLen(b) == IF b \in BoxIDs THEN dropBoxIDSize
              ELSE IF b = ShortID THEN dropBoxIDSize - 1 ELSE 0

\* hex.EncodeToString: always lower case.
EncodeToString(b) ==
  CASE b = "id1" -> "a1"
    [] b = "id2" -> "a2"
    [] b = ShortID -> "a0"
    [] OTHER -> ""

\* hex.DecodeString: accepts both cases, fails on a non-hex string.
DecodeString(s) ==
  CASE s \in {"a1", "A1"} -> [err |-> FALSE, bytes |-> "id1"]
    [] s \in {"a2", "A2"} -> [err |-> FALSE, bytes |-> "id2"]
    [] s = "a0" -> [err |-> FALSE, bytes |-> ShortID]
    [] OTHER -> [err |-> TRUE, bytes |-> NoBytes]

\* The box id strings a client may put in a URL or a form name, and the packages.
HexInputs == {"a1", "A1", "a2", "a0", "zz"}
NoPkg == ""
Pkgs == {"p1", "p2"}
PkgInputs == Pkgs \cup {NoPkg}

Writes == 1..MaxWrites
\* the write requests a behaviour can hold at all
Slots == 1..MaxPuts

\* The socket sessions. Each is opened at most once, by one of the two socket
\* endpoints, which decides its kind: "pl" (packageListener) or "ss" (socketServer).
Sessions == {"s1"}
\* Map keys of pl.subs and ss.pkgSubs: the hex strings of the 16-byte ids.
HexKeys == {EncodeToString(b) : b \in BoxIDs}
\* Subscription channels of the drop-box bus, in order of creation.
Chans == 1..MaxSubs
NoChan == 0

VARIABLES
  kv,       \* the dropboxes bucket: box id -> package (NoPkg when absent)
  wlog,     \* history: the committed store transactions, in commit order, each
            \* with the boxes it wrote and the bucket it left
  reqs,     \* the REST write handlers (PUT and multipart), one per request
  lastGet,  \* the response of the latest GET /drop-boxes/{box_id}
  bus,      \* dropBoxPubSub: the subscription channels, with topic and queue
  fwd,      \* the forwarder goroutines, one per subscription channel
  sess,     \* the socket sessions: reader, writer, stop task, maps, channels
  nmsg,     \* number of user messages published so far
  panicked  \* a goroutine panicked: the process has exited

vars == <<kv, wlog, reqs, lastGet, bus, fwd, sess, nmsg, panicked>>
sockVars == <<bus, fwd, sess, nmsg, panicked>>

\* ------------------------------------------------------------ the store
\* a Put that keeps the package a box already holds
kvPutKeepsFirst(store, boxID, pkg) ==
  IF store[boxID] # NoPkg THEN store ELSE [store EXCEPT ![boxID] = pkg]

\* a Put that is lost
kvPutLost(store, boxID, pkg) == store

\* bucket.Put(boxID, pkg)
kvPut(store, boxID, pkg) == [store EXCEPT ![boxID] = pkg]

\* bucket.Get(boxID): nil for a key the bucket does not hold
pickUpPackage(boxID) == IF boxID \in DOMAIN kv THEN kv[boxID] ELSE NoPkg

\* -------------------------------------------------------- REST handlers
\* a parse that takes any hex string, whatever its length
parseDropBoxIDAnyLen(boxIDStr) ==
  LET d == DecodeString(boxIDStr) IN
  IF d.err THEN [ok |-> FALSE, boxID |-> NoBytes, hex |-> ""]
  ELSE [ok |-> TRUE, boxID |-> d.bytes, hex |-> boxIDStr]

parseDropBoxID(boxIDStr) ==
  LET d == DecodeString(boxIDStr) IN
  IF d.err THEN [ok |-> FALSE, boxID |-> NoBytes, hex |-> ""]
  ELSE IF ByteLen(d.bytes) # dropBoxIDSize THEN [ok |-> FALSE, boxID |-> NoBytes, hex |-> ""]
  ELSE [ok |-> TRUE, boxID |-> d.bytes, hex |-> boxIDStr]

NoReq == [kind |-> "none", pc |-> "idle", parts |-> <<>>, status |-> 0,
          fault |-> FALSE, after |-> {}, pubs |-> <<>>, targets |-> <<>>]

Part(h, p) == [hex |-> h, pkg |-> p]

\* the requests whose handler has returned, so that the client has the
\* response for certain: the PUT handler returns after Pub, the multipart
\* handler as soon as its publishing goroutine is started
Returned == {i \in Slots : reqs[i].status # 0 /\ (reqs[i].kind = "multi" \/ reqs[i].pc = "done")}

Started == {i \in Slots : reqs[i].kind # "none"}

RECURSIVE SumCmds(_)
SumCmds(S) == IF S = {} THEN 0
              ELSE LET s == CHOOSE x \in S : TRUE IN sess[s].ncmd + SumCmds(S \ {s})

\* the request slots are used in order
CanStart(i) == /\ reqs[i].kind = "none"
               /\ IF i = 1 THEN TRUE ELSE reqs[i - 1].kind # "none"

\* the request whose transaction wrote the box last (0: never written)
LastWriter(boxID) ==
  LET ks == {k \in DOMAIN wlog : boxID \in wlog[k].boxes} IN
  IF ks = {} THEN 0 ELSE wlog[CHOOSE k \in ks : \A j \in ks : j <= k].req

\* a GET that takes the package out of the box
pickUpPackageHandlerTakes(hex) ==
  LET id == parseDropBoxID(hex) IN
  /\ ~panicked
  /\ lastGet' = IF id.ok
                THEN [hex |-> hex, status |-> 200, body |-> pickUpPackage(id.boxID), at |-> Len(wlog)]
                ELSE [hex |-> hex, status |-> 400, body |-> NoPkg, at |-> Len(wlog)]
  /\ kv' = IF id.ok THEN [kv EXCEPT ![id.boxID] = NoPkg] ELSE kv
  /\ UNCHANGED <<wlog, reqs, sockVars>>

\* GET /drop-boxes/{box_id}
pickUpPackageHandler(hex) ==
  LET id == parseDropBoxID(hex) IN
  /\ ~panicked
  /\ lastGet' = IF id.ok
                THEN [hex |-> hex, status |-> 200, body |-> pickUpPackage(id.boxID), at |-> Len(wlog)]
                ELSE [hex |-> hex, status |-> 400, body |-> NoPkg, at |-> Len(wlog)]
  /\ UNCHANGED <<kv, wlog, reqs, sockVars>>

\* PUT /drop-boxes/{box_id}: parse the id, read the body, the bolt Update, then
\* sendBadReq, sendInternalErr or sendSuccess; Pub follows the 200
dropPackageHandler(i, hex, pkg, bodyErr, storeErr) ==
  LET id == parseDropBoxID(hex)
      r == [NoReq EXCEPT !.kind = "put", !.parts = <<Part(hex, pkg)>>, !.after = Returned]
  IN
  /\ ~panicked
  /\ CanStart(i)
  /\ IF ~id.ok \/ bodyErr
     THEN /\ reqs' = [reqs EXCEPT ![i] = [r EXCEPT !.pc = "done", !.status = 400]]
          /\ UNCHANGED <<kv, wlog>>
     ELSE IF storeErr
     THEN /\ reqs' = [reqs EXCEPT ![i] = [r EXCEPT !.pc = "done", !.status = 500,
                                            !.fault = TRUE]]
          /\ UNCHANGED <<kv, wlog>>
     ELSE /\ kv' = kvPut(kv, id.boxID, pkg)
          /\ wlog' = Append(wlog, [req |-> i, boxes |-> {id.boxID}, kv |-> kv'])
          /\ reqs' = [reqs EXCEPT ![i] = [r EXCEPT !.pc = "pub", !.status = 200,
                                            !.pubs = <<[pkg |-> pkg, topic |-> id.hex]>>]]
  /\ UNCHANGED <<lastGet, sockVars>>

\* a validation that looks at the first part only
FirstBadHeadOnly(parts) ==
  {k \in DOMAIN parts : k = 1 /\ ~parseDropBoxID(parts[k].hex).ok}

\* POST /drop-boxes/send: the first part, in order, whose form name is invalid
FirstBad(parts) ==
  {k \in DOMAIN parts : \A j \in 1..k : (j < k) = parseDropBoxID(parts[j].hex).ok}

\* pkgs[hexBoxID] = data: a later part with the same form name replaces an earlier one
PkgsMap(parts) ==
  [h \in {parts[k].hex : k \in DOMAIN parts} |->
     LET ks == {k \in DOMAIN parts : parts[k].hex = h}
         last == CHOOSE k \in ks : \A j \in ks : j <= k
     IN parts[last].pkg]

\* the orders in which a range over a Go map may visit its keys
Orderings(S) ==
  {q \in [1..Cardinality(S) -> S] : \A a, b \in 1..Cardinality(S) : a # b => q[a] # q[b]}

RECURSIVE ApplyPuts(_, _)
ApplyPuts(store, puts) ==
  IF puts = <<>> THEN store
  ELSE ApplyPuts(kvPut(store, Head(puts).box, Head(puts).pkg), Tail(puts))

\* POST /drop-boxes/send: read and validate the parts, the one bolt Update over
\* the map, then sendBadReq or sendSuccess; the publishing goroutine is started
\* with the map
sendMultiplePackagesHandler(i, parts, readErr, storeErr, ord, pubOrd) ==
  LET m == PkgsMap(parts)
      n == Cardinality(DOMAIN m)
      puts == [k \in 1..n |-> [box |-> DecodeString(ord[k]).bytes, pkg |-> m[ord[k]]]]
      r == [NoReq EXCEPT !.kind = "multi", !.parts = parts, !.after = Returned]
  IN
  /\ ~panicked
  /\ CanStart(i)
  /\ ord \in Orderings(DOMAIN m) /\ pubOrd \in Orderings(DOMAIN m)
  /\ IF readErr \/ FirstBad(parts) # {}
     THEN /\ reqs' = [reqs EXCEPT ![i] = [r EXCEPT !.pc = "done", !.status = 400]]
          /\ UNCHANGED <<kv, wlog>>
     ELSE IF storeErr
     THEN /\ reqs' = [reqs EXCEPT ![i] = [r EXCEPT !.pc = "done", !.status = 400,
                                            !.fault = TRUE]]
          /\ UNCHANGED <<kv, wlog>>
     ELSE /\ kv' = ApplyPuts(kv, puts)
          /\ wlog' = Append(wlog, [req |-> i, boxes |-> {puts[k].box : k \in 1..n}, kv |-> kv'])
          /\ reqs' = [reqs EXCEPT ![i] = [r EXCEPT !.pc = "pub", !.status = 200,
                        !.pubs = [k \in 1..n |-> [pkg |-> m[pubOrd[k]], topic |-> pubOrd[k]]]]]
  /\ UNCHANGED <<lastGet, sockVars>>

\* ------------------------------------------------------- the drop-box bus
\* capacity of a subscription queue
SubCap == 5

\* nunsub counts the Unsub calls made with the handle
NoSub == [topic |-> "", buf |-> <<>>, st |-> "free", nunsub |-> 0]

FreeChans == {c \in Chans : bus[c].st = "free"}
NewChan == CHOOSE c \in FreeChans : \A d \in FreeChans : c <= d

\* Sub(topic): a new subscriber with its own queue
Sub(b, topic) == [b EXCEPT ![NewChan] = [topic |-> topic, buf |-> <<>>, st |-> "live",
                                       nunsub |-> 0]]

\* Unsub(sub, topic): remove the subscriber and close its queue
Unsub(b, c) == [b EXCEPT ![c].st = "closed", ![c].nunsub = @ + 1]

RECURSIVE SortedSeq(_)
SortedSeq(S) ==
  IF S = {} THEN <<>>
  ELSE LET m == CHOOSE x \in S : \A y \in S : x <= y IN <<m>> \o SortedSeq(S \ {m})

\* the current subscribers of a topic, in order of subscription
Subscribers(topic) == SortedSeq({c \in Chans : bus[c].st = "live" /\ bus[c].topic = topic})

\* Pub enqueues the item to the subscribers in ts, in order, until one of them
\* has a full queue; a subscriber unsubscribed meanwhile is passed over
RECURSIVE Deliver(_, _, _)
Deliver(b, ts, item) ==
  IF ts = <<>> THEN [bus |-> b, left |-> <<>>]
  ELSE IF b[Head(ts)].st = "closed" THEN Deliver(b, Tail(ts), item)
  ELSE IF Len(b[Head(ts)].buf) >= SubCap THEN [bus |-> b, left |-> ts]
  ELSE Deliver([b EXCEPT ![Head(ts)].buf = Append(@, item)], Tail(ts), item)

\* a publish whose failure to get through is reported to the client
PubFailsRequest(i) ==
  LET r == reqs[i]
      ts == IF r.targets = <<>> THEN Subscribers(Head(r.pubs).topic) ELSE r.targets
      d == Deliver(bus, ts, [pkg |-> Head(r.pubs).pkg, src |-> i, via |-> "pub"])
  IN
  /\ ~panicked
  /\ r.pc = "pub"
  /\ IF r.targets = <<>> THEN TRUE
     ELSE Len(bus[Head(r.targets)].buf) < SubCap \/ bus[Head(r.targets)].st = "closed"
  /\ bus' = d.bus
  /\ reqs' = [reqs EXCEPT ![i] =
       IF d.left # <<>> THEN [r EXCEPT !.targets = d.left, !.status = 500]
       ELSE [r EXCEPT !.targets = <<>>, !.pubs = Tail(r.pubs),
                      !.pc = IF Tail(r.pubs) = <<>> THEN "done" ELSE "pub"]]
  /\ UNCHANGED <<kv, wlog, lastGet, fwd, sess, nmsg, panicked>>

\* Pub(pkg, topic) for the next item of the handler: take the subscribers of the
\* topic and enqueue to each; blocked on a full queue, go on from there
Pub(i) ==
  LET r == reqs[i]
      ts == IF r.targets = <<>> THEN Subscribers(Head(r.pubs).topic) ELSE r.targets
      d == Deliver(bus, ts, [pkg |-> Head(r.pubs).pkg, src |-> i, via |-> "pub"])
  IN
  /\ ~panicked
  /\ r.pc = "pub"
  /\ IF r.targets = <<>> THEN TRUE
     ELSE Len(bus[Head(r.targets)].buf) < SubCap \/ bus[Head(r.targets)].st = "closed"
  /\ bus' = d.bus
  /\ reqs' = [reqs EXCEPT ![i] =
       IF d.left # <<>> THEN [r EXCEPT !.targets = d.left]
       ELSE [r EXCEPT !.targets = <<>>, !.pubs = Tail(r.pubs),
                      !.pc = IF Tail(r.pubs) = <<>> THEN "done" ELSE "pub"]]
  /\ UNCHANGED <<kv, wlog, lastGet, fwd, sess, nmsg, panicked>>

\* --------------------------------------------------- the socket sessions
\* capacity of ss.pkgs (pl.pkgs is unbuffered)
pkgsCap == 5
\* capacity of the queue of a user-message subscription
MsgCap == 5

\* a queued package, with the request that wrote it and the way it came:
\* published by the write handler, or picked up from the store on WATCH
NoItem == [pkg |-> NoPkg, src |-> 0, via |-> "none"]
NoFwd == [sess |-> "none", box |-> NoBytes, pc |-> "off", item |-> NoItem, srClosed |-> FALSE]

NoSess == [kind |-> "none", up |-> 0, tok |-> "", user |-> 0, closed |-> FALSE,
           rd |-> "off", rtmp |-> NoItem, rch |-> NoChan,
           wr |-> "off", werr |-> FALSE,
           stp |-> "off",
           subs |-> [h \in HexKeys |-> NoChan],
           pkgs |-> <<>>, pkgsClosed |-> FALSE,
           msgs |-> <<>>, msgsSt |-> "free",
           sock |-> <<>>, connClosed |-> FALSE, ncmd |-> 0, logged |-> "", heard |-> <<>>,
           picked |-> [h \in HexKeys |-> NoPkg],
           since |-> [h \in HexKeys |-> {}],
           ign |-> [h \in HexKeys |-> FALSE],
           ignAt |-> [h \in HexKeys |-> {}],
           closedAt |-> {}]

\* the access tokens a client may present, and the user messages
Tokens == {"", "bad", "tok1", "dberr"}
UserIDs == {1, 2}
UserMsgs == {"m1", "m2"}

\* VerifyAccessToken: user id 0 for an invalid token, an error on store failure
verifyAccessToken(tok) ==
  CASE tok = "tok1" -> [err |-> FALSE, userID |-> 1]
    [] tok = "dberr" -> [err |-> TRUE, userID |-> 0]
    [] OTHER -> [err |-> FALSE, userID |-> 0]

\* pl.start(): go pl.read(); go pl.write(); go pl.stop()
plStart(r) == [r EXCEPT !.kind = "pl", !.up = 101, !.rd = "read", !.wr = "recv", !.stp = "wait"]

\* GET /drop-boxes/watch
createPackageWatcherHandler(s, tok, wsOk) ==
  /\ ~panicked
  /\ sess[s].kind = "none"
  /\ sess' = [sess EXCEPT ![s] = IF wsOk THEN plStart([NoSess EXCEPT !.tok = tok])
                                  ELSE [NoSess EXCEPT !.tok = tok, !.up = 400]]
  /\ UNCHANGED <<kv, wlog, reqs, lastGet, bus, fwd, nmsg, panicked>>

\* ss.start(): messagesPubSub.Sub(ss.userID); go ss.readConn(); go ss.writeConn()
ssStart(r, userID) ==
  [r EXCEPT !.kind = "ss", !.up = 101, !.user = userID, !.msgsSt = "live",
            !.rd = "read", !.wr = "recv"]

\* GET /sockets
createSocketHandler(s, tok, wsOk) ==
  LET v == verifyAccessToken(tok)
      r == [NoSess EXCEPT !.tok = tok]
  IN
  /\ ~panicked
  /\ sess[s].kind = "none"
  /\ sess' = [sess EXCEPT ![s] =
       IF v.err THEN [r EXCEPT !.up = 500]
       ELSE IF v.userID = 0 THEN [r EXCEPT !.up = 401]
       ELSE IF ~wsOk THEN [r EXCEPT !.up = 400]
       ELSE ssStart(r, v.userID)]
  /\ UNCHANGED <<kv, wlog, reqs, lastGet, bus, fwd, nmsg, panicked>>

Reading(s) == sess[s].kind # "none" /\ sess[s].rd = "read"

\* read()/readConn(): ReadMessage fails, or the message is not binary
readClose(s) ==
  /\ ~panicked
  /\ Reading(s)
  /\ sess' = [sess EXCEPT ![s].rd = "done", ![s].closed = TRUE, ![s].closedAt = Started]
  /\ UNCHANGED <<kv, wlog, reqs, lastGet, bus, fwd, nmsg, panicked>>

\* read()/readConn(): an empty frame, a NOP, or an unknown opcode
\* a reader that ends the session on a frame it cannot use
readDiscardBreaks(s, frame) ==
  /\ frame \in {"empty", "nop", "unknown"}
  /\ readClose(s)

readDiscard(s, frame) ==
  /\ ~panicked
  /\ Reading(s)
  /\ frame \in {"empty", "nop", "unknown"}
  /\ sess' = [sess EXCEPT ![s].ncmd = @ + 1,
                          ![s].logged = IF frame = "nop" THEN @ ELSE frame]
  /\ UNCHANGED <<kv, wlog, reqs, lastGet, bus, fwd, nmsg, panicked>>

\* the duplicate check left out: every WATCH subscribes
WatchedNever(s, hexID) == FALSE

\* the duplicate check of watch()/watchBox(): the map has an entry for the id
Watched(s, hexID) == sess[s].subs[hexID] # NoChan

\* watch()/watchBox(): length check, duplicate check, Sub, the pickup of the
\* current package; with nothing to send the forwarder is started at once
watch(s, boxID, pickErr) ==
  LET hexID == EncodeToString(boxID)
      c == NewChan
      tmp == IF sess[s].kind = "ss" /\ pickErr THEN NoPkg ELSE pickUpPackage(boxID)
      item == IF tmp = NoPkg THEN NoItem
              ELSE [pkg |-> tmp, src |-> LastWriter(boxID), via |-> "pickup"]
  IN
  /\ ~panicked
  /\ Reading(s)
  /\ IF ByteLen(boxID) # dropBoxIDSize
     THEN /\ sess' = [sess EXCEPT ![s].ncmd = @ + 1, ![s].logged = "badlen"]
          /\ UNCHANGED <<bus, fwd>>
     ELSE IF Watched(s, hexID)
     THEN /\ sess' = [sess EXCEPT ![s].ncmd = @ + 1, ![s].logged = "dup"]
          /\ UNCHANGED <<bus, fwd>>
     ELSE /\ FreeChans # {}
          /\ bus' = Sub(bus, hexID)
          /\ fwd' = [fwd EXCEPT ![c] = [NoFwd EXCEPT !.sess = s, !.box = boxID,
                                         !.pc = IF tmp # NoPkg THEN "off" ELSE "select"]]
          /\ sess' = [sess EXCEPT ![s].ncmd = @ + 1, ![s].subs[hexID] = c,
                                  ![s].logged = IF sess[s].kind = "ss" /\ pickErr
                                                THEN "pickerr" ELSE @,
                                  ![s].picked[hexID] = tmp,
                                  ![s].since[hexID] = Started,
                                  ![s].ign[hexID] = FALSE, ![s].ignAt[hexID] = {},
                                  ![s].rd = IF tmp # NoPkg THEN "send" ELSE "read",
                                  ![s].rtmp = item,
                                  ![s].rch = IF tmp # NoPkg THEN c ELSE NoChan]
  /\ UNCHANGED <<kv, wlog, reqs, lastGet, nmsg, panicked>>

\* watch()/watchBox(): sub <- tmp, then the forwarder goroutine is started
watchSend(s) ==
  LET c == sess[s].rch IN
  /\ ~panicked
  /\ sess[s].kind # "none" /\ sess[s].rd = "send"
  /\ Len(bus[c].buf) < SubCap
  /\ bus' = [bus EXCEPT ![c].buf = Append(@, sess[s].rtmp)]
  /\ fwd' = [fwd EXCEPT ![c].pc = "select"]
  /\ sess' = [sess EXCEPT ![s].rd = "read", ![s].rtmp = NoItem, ![s].rch = NoChan]
  /\ UNCHANGED <<kv, wlog, reqs, lastGet, nmsg, panicked>>

\* packageListener.ignore(): close(sr.closed); delete(pl.subs, hexID)
ignore(s, boxID) ==
  LET hexID == EncodeToString(boxID) IN
  /\ ~panicked
  /\ Reading(s) /\ sess[s].kind = "pl"
  /\ IF ByteLen(boxID) # dropBoxIDSize
     THEN /\ sess' = [sess EXCEPT ![s].ncmd = @ + 1, ![s].logged = "badlen"]
          /\ UNCHANGED <<fwd, panicked>>
     ELSE IF sess[s].subs[hexID] = NoChan
     THEN /\ sess' = [sess EXCEPT ![s].ncmd = @ + 1, ![s].logged = "nosub"]
          /\ UNCHANGED <<fwd, panicked>>
     ELSE /\ panicked' = fwd[sess[s].subs[hexID]].srClosed
          /\ fwd' = [fwd EXCEPT ![sess[s].subs[hexID]].srClosed = TRUE]
          /\ sess' = [sess EXCEPT ![s].ncmd = @ + 1, ![s].subs[hexID] = NoChan,
                                  ![s].ign[hexID] = TRUE, ![s].ignAt[hexID] = Started]
  /\ UNCHANGED <<kv, wlog, reqs, lastGet, bus, nmsg>>

\* an IGNORE that leaves the handle in ss.pkgSubs
ignoreBoxKeeps(s, boxID) ==
  LET hexID == EncodeToString(boxID) IN
  /\ ~panicked
  /\ Reading(s) /\ sess[s].kind = "ss"
  /\ IF hexID \notin HexKeys
     THEN /\ sess' = [sess EXCEPT ![s].ncmd = @ + 1, ![s].logged = "nosub"]
          /\ UNCHANGED bus
     ELSE IF sess[s].subs[hexID] = NoChan
     THEN /\ sess' = [sess EXCEPT ![s].ncmd = @ + 1, ![s].logged = "nosub"]
          /\ UNCHANGED bus
     ELSE /\ bus' = Unsub(bus, sess[s].subs[hexID])
          /\ sess' = [sess EXCEPT ![s].ncmd = @ + 1,
                                  ![s].ign[hexID] = TRUE, ![s].ignAt[hexID] = Started]
  /\ UNCHANGED <<kv, wlog, reqs, lastGet, fwd, nmsg, panicked>>

\* socketServer.ignoreBox(): dropBoxPubSub.Unsub(sub, hexID); delete(ss.pkgSubs, hexID)
ignoreBox(s, boxID) ==
  LET hexID == EncodeToString(boxID) IN
  /\ ~panicked
  /\ Reading(s) /\ sess[s].kind = "ss"
  /\ IF hexID \notin HexKeys
     THEN /\ sess' = [sess EXCEPT ![s].ncmd = @ + 1, ![s].logged = "nosub"]
          /\ UNCHANGED bus
     ELSE IF sess[s].subs[hexID] = NoChan
     THEN /\ sess' = [sess EXCEPT ![s].ncmd = @ + 1, ![s].logged = "nosub"]
          /\ UNCHANGED bus
     ELSE /\ bus' = Unsub(bus, sess[s].subs[hexID])
          /\ sess' = [sess EXCEPT ![s].ncmd = @ + 1, ![s].subs[hexID] = NoChan,
                                  ![s].ign[hexID] = TRUE, ![s].ignAt[hexID] = Started]
  /\ UNCHANGED <<kv, wlog, reqs, lastGet, fwd, nmsg, panicked>>

\* ------------------------------------------------------------ forwarders
Selecting(c) == fwd[c].pc = "select"
Owner(c) == fwd[c].sess

\* select: case <-closed. The packageListener forwarder runs its deferred
\* Unsub and waitGroup.Done; the socketServer forwarder only returns.
fwdClosed(c) ==
  /\ ~panicked
  /\ Selecting(c) /\ sess[Owner(c)].closed
  /\ fwd' = [fwd EXCEPT ![c].pc = "done"]
  /\ bus' = IF sess[Owner(c)].kind = "pl" THEN Unsub(bus, c) ELSE bus
  /\ UNCHANGED <<kv, wlog, reqs, lastGet, sess, nmsg, panicked>>

\* select: case pkg := <-sub, nil from the closed queue. The socketServer
\* forwarder closes ss.pkgs (a second close panics) and returns.
fwdRecvNil(c) ==
  LET s == Owner(c) IN
  /\ ~panicked
  /\ Selecting(c) /\ bus[c].buf = <<>> /\ bus[c].st = "closed"
  /\ fwd' = [fwd EXCEPT ![c].pc = "done"]
  /\ IF sess[s].kind = "ss"
     THEN /\ panicked' = sess[s].pkgsClosed
          /\ sess' = [sess EXCEPT ![s].pkgsClosed = TRUE]
     ELSE UNCHANGED <<sess, panicked>>
  /\ UNCHANGED <<kv, wlog, reqs, lastGet, bus, nmsg>>

\* a write that puts the frame on the wire in two pieces
writeMessageTorn(r, frame, ok) ==
  IF ok /\ ~r.connClosed
  THEN [r EXCEPT !.sock = Append(Append(@, [frame EXCEPT !.pkg = NoPkg]), frame)]
  ELSE [r EXCEPT !.wr = "done", !.werr = TRUE]

\* conn.WriteMessage by the writer: the frame goes out, or the write fails and
\* the writer returns
writeMessage(r, frame, ok) ==
  IF ok /\ ~r.connClosed
  THEN [r EXCEPT !.sock = Append(@, frame)]
  ELSE [r EXCEPT !.wr = "done", !.werr = TRUE]

\* the package the forwarder holds: the one it takes from its queue, or the
\* one it is blocked with
Held(c) == IF fwd[c].pc = "send" THEN fwd[c].item ELSE Head(bus[c].buf)
FrameOf(c) == [box |-> fwd[c].box, pkg |-> Held(c).pkg, src |-> Held(c).src,
               via |-> Held(c).via, ch |-> c]
CanForward(c) == \/ Selecting(c) /\ bus[c].buf # <<>>
                 \/ fwd[c].pc = "send"
\* a forwarder that leaves the package it forwards in its queue
TakeFromKeeps(b, c) == b

TakeFrom(b, c) == IF fwd[c].pc = "send" THEN b ELSE [b EXCEPT ![c].buf = Tail(@)]

\* packageListener forwarder: case pkg := <-sub, then pl.pkgs <- bytes on the
\* unbuffered channel, which write() takes and writes to the socket
fwdPkgPL(c, ok) ==
  LET s == Owner(c) IN
  /\ ~panicked
  /\ CanForward(c) /\ sess[s].kind = "pl"
  /\ fwd[c].pc = "send" => sess[s].wr = "recv"
  /\ bus' = TakeFrom(bus, c)
  /\ IF sess[s].wr = "recv" /\ ~sess[s].pkgsClosed
     THEN /\ fwd' = [fwd EXCEPT ![c].pc = "select", ![c].item = NoItem]
          /\ sess' = [sess EXCEPT ![s] = writeMessage(sess[s], FrameOf(c), ok)]
     ELSE /\ fwd' = [fwd EXCEPT ![c].pc = "send", ![c].item = Held(c)]
          /\ UNCHANGED sess
  /\ UNCHANGED <<kv, wlog, reqs, lastGet, nmsg, panicked>>

\* socketServer forwarder: case pkg := <-sub, then ss.pkgs <- buf on the
\* buffered channel (a send on the closed channel panics)
fwdPkgSS(c) ==
  LET s == Owner(c) IN
  /\ ~panicked
  /\ CanForward(c) /\ sess[s].kind = "ss"
  /\ fwd[c].pc = "send" => (Len(sess[s].pkgs) < pkgsCap \/ sess[s].pkgsClosed)
  /\ bus' = TakeFrom(bus, c)
  /\ IF sess[s].pkgsClosed
     THEN /\ panicked' = TRUE
          /\ fwd' = [fwd EXCEPT ![c].pc = "send", ![c].item = Held(c)]
          /\ UNCHANGED sess
     ELSE IF Len(sess[s].pkgs) < pkgsCap
     THEN /\ fwd' = [fwd EXCEPT ![c].pc = "select", ![c].item = NoItem]
          /\ sess' = [sess EXCEPT ![s].pkgs = Append(@, FrameOf(c))]
          /\ UNCHANGED panicked
     ELSE /\ fwd' = [fwd EXCEPT ![c].pc = "send", ![c].item = Held(c)]
          /\ UNCHANGED <<sess, panicked>>
  /\ UNCHANGED <<kv, wlog, reqs, lastGet, nmsg>>

\* --------------------------------------------------------------- writers
\* write(): the range over pl.pkgs ends when the channel is closed
writeEnd(s) ==
  /\ ~panicked
  /\ sess[s].kind = "pl" /\ sess[s].wr = "recv" /\ sess[s].pkgsClosed
  /\ sess' = [sess EXCEPT ![s].wr = "done"]
  /\ UNCHANGED <<kv, wlog, reqs, lastGet, bus, fwd, nmsg, panicked>>

\* writeConn(): case msg := <-ss.messages (nil from a closed queue returns)
writeConnMsg(s, ok) ==
  /\ ~panicked
  /\ sess[s].kind = "ss" /\ sess[s].wr = "recv"
  /\ sess[s].msgs # <<>> \/ sess[s].msgsSt = "closed"
  /\ sess' = IF sess[s].msgs # <<>>
             THEN [sess EXCEPT ![s] = writeMessage([sess[s] EXCEPT !.msgs = Tail(@)],
                      [box |-> "msg", pkg |-> Head(sess[s].msgs).pkg,
                       src |-> Head(sess[s].msgs).src, via |-> "msg",
                       ch |-> NoChan], ok)]
             ELSE [sess EXCEPT ![s].wr = "done"]
  /\ UNCHANGED <<kv, wlog, reqs, lastGet, bus, fwd, nmsg, panicked>>

\* writeConn(): case pkg := <-ss.pkgs (nil from the closed channel returns)
writeConnPkg(s, ok) ==
  /\ ~panicked
  /\ sess[s].kind = "ss" /\ sess[s].wr = "recv"
  /\ sess[s].pkgs # <<>> \/ sess[s].pkgsClosed
  /\ sess' = IF sess[s].pkgs # <<>>
             THEN [sess EXCEPT ![s] = writeMessage([sess[s] EXCEPT !.pkgs = Tail(@)],
                      Head(sess[s].pkgs), ok)]
             ELSE [sess EXCEPT ![s].wr = "done"]
  /\ UNCHANGED <<kv, wlog, reqs, lastGet, bus, fwd, nmsg, panicked>>

\* writeConn(): case <-ss.closed
writeConnClosed(s) ==
  /\ ~panicked
  /\ sess[s].kind = "ss" /\ sess[s].wr = "recv" /\ sess[s].closed
  /\ sess' = [sess EXCEPT ![s].wr = "done"]
  /\ UNCHANGED <<kv, wlog, reqs, lastGet, bus, fwd, nmsg, panicked>>

\* ----------------------------------------------- packageListener.stop()
OwnChans(s) == {c \in Chans : fwd[c].sess = s}

\* <-pl.closed, then close(sr.closed) for every entry of pl.subs
stopWake(s) ==
  LET cs == {sess[s].subs[h] : h \in HexKeys} \ {NoChan} IN
  /\ ~panicked
  /\ sess[s].kind = "pl" /\ sess[s].stp = "wait" /\ sess[s].closed
  /\ panicked' = (\E c \in cs : fwd[c].srClosed)
  /\ fwd' = [c \in Chans |-> IF c \in cs THEN [fwd[c] EXCEPT !.srClosed = TRUE] ELSE fwd[c]]
  /\ sess' = [sess EXCEPT ![s].stp = "wg"]
  /\ UNCHANGED <<kv, wlog, reqs, lastGet, bus, nmsg>>

\* pl.waitGroup.Wait() returns; pl.conn.Close(); close(pl.pkgs)
stopFinish(s) ==
  /\ ~panicked
  /\ sess[s].kind = "pl" /\ sess[s].stp = "wg"
  /\ \A c \in OwnChans(s) : fwd[c].pc = "done"
  /\ sess' = [sess EXCEPT ![s].stp = "done", ![s].connClosed = TRUE, ![s].pkgsClosed = TRUE]
  /\ UNCHANGED <<kv, wlog, reqs, lastGet, bus, fwd, nmsg, panicked>>

\* ------------------------------------------------- the user-message bus
MsgSubscribers(u) == {s \in Sessions : sess[s].msgsSt = "live" /\ sess[s].user = u}

\* messagesPubSub.Pub(msg, userID), called by the message-send handler; the
\* item queued carries in src the user of the topic it was published on
pubUserMessage(u, m) ==
  /\ ~panicked
  /\ nmsg < MaxMsgs
  /\ \A s \in MsgSubscribers(u) : Len(sess[s].msgs) < MsgCap
  /\ sess' = [s \in Sessions |-> IF s \in MsgSubscribers(u)
                                 THEN [sess[s] EXCEPT
                                        !.msgs = Append(@, [pkg |-> m, src |-> u, via |-> "msg"]),
                                        !.heard = Append(@, m)]
                                 ELSE sess[s]]
  /\ nmsg' = nmsg + 1
  /\ UNCHANGED <<kv, wlog, reqs, lastGet, bus, fwd, panicked>>

\* ------------------------------------------------------ specifications
Init ==
  /\ kv = [b \in BoxIDs |-> NoPkg]
  /\ wlog = <<>>
  /\ reqs = [i \in Slots |-> NoReq]
  /\ lastGet = [hex |-> "", status |-> 0, body |-> NoPkg, at |-> 0]
  /\ bus = [c \in Chans |-> NoSub]
  /\ fwd = [c \in Chans |-> NoFwd]
  /\ sess = [s \in Sessions |-> NoSess]
  /\ nmsg = 0
  /\ panicked = FALSE

\* the multipart requests a client sends: two boxes, one box, an invalid form
\* name last and first, a form name that is not lower case, a repeated name
Batches ==
  { <<Part("a1", "p1"), Part("a2", "p2")>>,
    <<Part("a1", "p2")>>,
    <<Part("a2", "p2"), Part("zz", "p1")>>,
    <<Part("a0", "p1"), Part("a2", "p1")>>,
    <<Part("a1", "p1"), Part("A1", "p2")>>,
    <<Part("a2", "p1"), Part("a2", "p2")>> }

\* the write requests sent while a socket is open: valid ids only
SockHex == {"a1", "A1", "a2"}
\* while a socket is open each request carries a package of its own
PkgOf(i) == IF i % 2 = 1 THEN "p1" ELSE "p2"
SockBatches(i) == {<<Part("a1", PkgOf(i)), Part("a2", PkgOf(i))>>, <<Part("a1", PkgOf(i))>>}
\* the token of a client that opens a socket to use it
SockTokens == {"tok1"}

\* the caps on the client's inputs
InBudget == Cardinality(Started) + SumCmds(Sessions) < MaxInputs
MayFrame(s) == sess[s].ncmd < MaxCmds

\* the REST surface alone: no socket is opened
NextRest ==
  \/ \E hex \in HexInputs : pickUpPackageHandler(hex)
  \/ \E i \in Writes, hex \in HexInputs, bodyErr, storeErr \in BOOLEAN :
       \E pkg \in (IF bodyErr THEN {NoPkg} ELSE PkgInputs) :
         dropPackageHandler(i, hex, pkg, bodyErr, storeErr)
  \/ \E i \in Writes, parts \in Batches, readErr, storeErr \in BOOLEAN :
       \E ord, pubOrd \in Orderings(DOMAIN PkgsMap(parts)) :
         sendMultiplePackagesHandler(i, parts, readErr, storeErr, ord, pubOrd)
  \/ \E i \in Slots : Pub(i)

SpecRest == Init /\ [][NextRest]_vars

\* the steps of the server's goroutines around a packageListener
SysPL ==
  \/ \E i \in Slots : Pub(i)
  \/ \E s \in Sessions : watchSend(s)
  \/ \E c \in Chans : fwdClosed(c)
  \/ \E c \in Chans, ok \in BOOLEAN : fwdPkgPL(c, ok)
  \/ \E s \in Sessions : writeEnd(s)
  \/ \E s \in Sessions : stopWake(s)
  \/ \E s \in Sessions : stopFinish(s)

\* the steps of the server's goroutines around a socketServer
SysSS ==
  \/ \E i \in Slots : Pub(i)
  \/ \E s \in Sessions : watchSend(s)
  \/ \E c \in Chans : fwdClosed(c)
  \/ \E c \in Chans : fwdRecvNil(c)
  \/ \E c \in Chans : fwdPkgSS(c)
  \/ \E s \in Sessions : writeConnPkg(s, TRUE)
  \/ \E s \in Sessions : writeConnPkg(s, FALSE)
  \/ \E s \in Sessions : writeConnClosed(s)

\* the user messages: the publisher and the writer's case for them
MsgNext ==
  \/ \E u \in UserIDs, m \in UserMsgs : pubUserMessage(u, m)
  \/ \E s \in Sessions, ok \in BOOLEAN : writeConnMsg(s, ok)

\* every step a goroutine of the server can take on its own
SysNext == SysPL \/ SysSS \/ \E s \in Sessions, ok \in BOOLEAN : writeConnMsg(s, ok)

\* the write requests of the clients while a socket is open
EnvWrite(n) ==
  \/ \E i \in 1..n, hex \in SockHex :
       dropPackageHandler(i, hex, PkgOf(i), FALSE, FALSE)
  \/ \E i \in 1..n : \E parts \in SockBatches(i) :
       \E ord, pubOrd \in Orderings(DOMAIN PkgsMap(parts)) :
         sendMultiplePackagesHandler(i, parts, FALSE, FALSE, ord, pubOrd)

\* a client of GET /drop-boxes/watch: the upgrade, the frames, the close
EnvPL ==
  \/ InBudget /\ EnvWrite(MaxWrites)
  \/ \E s \in Sessions, tok \in SockTokens, ok \in BOOLEAN : createPackageWatcherHandler(s, tok, ok)
  \/ \E s \in Sessions : readClose(s)
  \/ \E s \in Sessions, f \in {"empty", "nop", "unknown"} :
       MayFrame(s) /\ InBudget /\ readDiscard(s, f)
  \/ \E s \in Sessions, b \in BoxIDs \cup {ShortID} :
       MayFrame(s) /\ InBudget /\ watch(s, b, FALSE)
  \/ \E s \in Sessions, b \in BoxIDs \cup {ShortID} :
       MayFrame(s) /\ InBudget /\ ignore(s, b)

NextPL == SysPL \/ EnvPL

SpecPL == Init /\ [][NextPL]_vars

\* a client of GET /sockets: the upgrade, the frames, the close
EnvSS ==
  \/ EnvWrite(MaxWritesSS)
  \/ \E s \in Sessions, tok \in SockTokens, ok \in BOOLEAN : createSocketHandler(s, tok, ok)
  \/ \E s \in Sessions : readClose(s)
  \/ \E s \in Sessions, f \in {"empty", "nop", "unknown"} :
       MayFrame(s) /\ readDiscard(s, f)
  \/ \E s \in Sessions, b \in BoxIDs \cup {ShortID}, e \in BOOLEAN :
       MayFrame(s) /\ watch(s, b, e)
  \/ \E s \in Sessions, b \in BoxIDs \cup {ShortID} :
       MayFrame(s) /\ ignoreBox(s, b)

NextSS == SysSS \/ EnvSS

SpecSS == Init /\ [][NextSS]_vars

\* the two upgrade endpoints with every token, and sockets that see no write
SysUp ==
  \/ \E c \in Chans : fwdClosed(c)
  \/ \E c \in Chans : fwdRecvNil(c)
  \/ \E s \in Sessions : writeEnd(s)
  \/ \E s \in Sessions : writeConnPkg(s, TRUE)
  \/ \E s \in Sessions : writeConnClosed(s)
  \/ \E s \in Sessions : stopWake(s)
  \/ \E s \in Sessions : stopFinish(s)

EnvUp ==
  \/ \E s \in Sessions, tok \in Tokens, ok \in BOOLEAN : createPackageWatcherHandler(s, tok, ok)
  \/ \E s \in Sessions, tok \in Tokens, ok \in BOOLEAN : createSocketHandler(s, tok, ok)
  \/ \E s \in Sessions : readClose(s)
  \/ \E s \in Sessions, f \in {"empty", "nop", "unknown"} :
       MayFrame(s) /\ readDiscard(s, f)
  \/ \E s \in Sessions, b \in BoxIDs \cup {ShortID}, e \in BOOLEAN :
       MayFrame(s) /\ watch(s, b, e)
  \/ \E s \in Sessions, b \in BoxIDs \cup {ShortID} :
       MayFrame(s) /\ ignore(s, b)
  \/ \E s \in Sessions, b \in BoxIDs \cup {ShortID} :
       MayFrame(s) /\ ignoreBox(s, b)

NextUp == SysUp \/ EnvUp

SpecUp == Init /\ [][NextUp]_vars

\* the command surface of both socket kinds: every frame kind, one write
SysCmd ==
  \/ \E i \in Slots : Pub(i)
  \/ \E s \in Sessions : watchSend(s)
  \/ \E c \in Chans : fwdClosed(c)
  \/ \E c \in Chans : fwdRecvNil(c)
  \/ \E c \in Chans, ok \in BOOLEAN : fwdPkgPL(c, ok)
  \/ \E c \in Chans : fwdPkgSS(c)
  \/ \E s \in Sessions : writeEnd(s)
  \/ \E s \in Sessions, ok \in BOOLEAN : writeConnPkg(s, ok)
  \/ \E s \in Sessions : writeConnClosed(s)
  \/ \E s \in Sessions : stopWake(s)
  \/ \E s \in Sessions : stopFinish(s)

EnvCmd ==
  \/ EnvWrite(MaxWritesSS)
  \/ \E s \in Sessions, tok \in SockTokens, ok \in BOOLEAN : createPackageWatcherHandler(s, tok, ok)
  \/ \E s \in Sessions, tok \in SockTokens, ok \in BOOLEAN : createSocketHandler(s, tok, ok)
  \/ \E s \in Sessions : readClose(s)
  \/ \E s \in Sessions, f \in {"empty", "nop", "unknown"} :
       MayFrame(s) /\ readDiscard(s, f)
  \/ \E s \in Sessions, b \in BoxIDs \cup {ShortID}, e \in BOOLEAN :
       MayFrame(s) /\ watch(s, b, e)
  \/ \E s \in Sessions, b \in BoxIDs \cup {ShortID} :
       MayFrame(s) /\ ignore(s, b)
  \/ \E s \in Sessions, b \in BoxIDs \cup {ShortID} :
       MayFrame(s) /\ ignoreBox(s, b)

NextCmd == SysCmd \/ EnvCmd

SpecCmd == Init /\ [][NextCmd]_vars

\* a socketServer session, its commands and the user messages; no write
SysMsg ==
  \/ \E c \in Chans : fwdClosed(c)
  \/ \E c \in Chans : fwdRecvNil(c)
  \/ \E s \in Sessions, ok \in BOOLEAN : writeConnMsg(s, ok)
  \/ \E s \in Sessions : writeConnPkg(s, TRUE)
  \/ \E s \in Sessions : writeConnClosed(s)

EnvMsg ==
  \/ \E u \in UserIDs, m \in UserMsgs : pubUserMessage(u, m)
  \/ \E s \in Sessions, tok \in SockTokens, ok \in BOOLEAN : createSocketHandler(s, tok, ok)
  \/ \E s \in Sessions : readClose(s)
  \/ \E s \in Sessions, f \in {"empty", "nop", "unknown"} :
       MayFrame(s) /\ readDiscard(s, f)
  \/ \E s \in Sessions, b \in BoxIDs \cup {ShortID}, e \in BOOLEAN :
       MayFrame(s) /\ watch(s, b, e)
  \/ \E s \in Sessions, b \in BoxIDs \cup {ShortID} :
       MayFrame(s) /\ ignoreBox(s, b)

NextMsg == SysMsg \/ EnvMsg

SpecMsg == Init /\ [][NextMsg]_vars

\* what is written to a socket: a session that watches, one write request and
\* one user message
SysWire ==
  \/ \E i \in Slots : Pub(i)
  \/ \E s \in Sessions : watchSend(s)
  \/ \E c \in Chans : fwdClosed(c)
  \/ \E c \in Chans, ok \in BOOLEAN : fwdPkgPL(c, ok)
  \/ \E c \in Chans : fwdPkgSS(c)
  \/ \E s \in Sessions, ok \in BOOLEAN : writeConnMsg(s, ok)
  \/ \E s \in Sessions, ok \in BOOLEAN : writeConnPkg(s, ok)
  \/ \E s \in Sessions : writeConnClosed(s)
  \/ \E s \in Sessions : writeEnd(s)
  \/ \E s \in Sessions : stopWake(s)
  \/ \E s \in Sessions : stopFinish(s)

EnvWire ==
  \/ EnvWrite(MaxWritesSS)
  \/ \E u \in UserIDs, m \in UserMsgs : nmsg = 0 /\ pubUserMessage(u, m)
  \/ \E s \in Sessions, tok \in SockTokens : createPackageWatcherHandler(s, tok, TRUE)
  \/ \E s \in Sessions, tok \in SockTokens : createSocketHandler(s, tok, TRUE)
  \/ \E s \in Sessions : readClose(s)
  \/ \E s \in Sessions, b \in BoxIDs :
       sess[s].ncmd < MaxSubs /\ watch(s, b, FALSE)

NextWire == SysWire \/ EnvWire

SpecWire == Init /\ [][NextWire]_vars

\* one watched box and enough write requests to fill its subscriber's queue
SysFull ==
  \/ \E i \in Slots : Pub(i)
  \/ \E s \in Sessions : watchSend(s)
  \/ \E c \in Chans : fwdClosed(c)
  \/ \E c \in Chans, ok \in BOOLEAN : fwdPkgPL(c, ok)
  \/ \E c \in Chans : fwdPkgSS(c)
  \/ \E s \in Sessions, ok \in BOOLEAN : writeConnPkg(s, ok)
  \/ \E s \in Sessions : writeConnClosed(s)
  \/ \E s \in Sessions : writeEnd(s)
  \/ \E s \in Sessions : stopWake(s)
  \/ \E s \in Sessions : stopFinish(s)

\* the client of the write routes sends its requests one after the other: the
\* next one when the handlers of the earlier ones have returned or are blocked
OneByOne == \A j \in Slots : reqs[j].pc = "pub" => ~ENABLED Pub(j)

\* its requests are a POST /drop-boxes/send and a PUT in turn
EnvFull ==
  \/ \E i \in Slots :
       OneByOne /\ i % 2 = 0 /\ dropPackageHandler(i, "a1", PkgOf(i), FALSE, FALSE)
  \/ \E i \in Slots :
       OneByOne /\ i % 2 = 1 /\
       sendMultiplePackagesHandler(i, <<Part("a1", PkgOf(i))>>, FALSE, FALSE,
                                   <<"a1">>, <<"a1">>)
  \/ \E s \in Sessions, tok \in SockTokens : createPackageWatcherHandler(s, tok, TRUE)
  \/ \E s \in Sessions, tok \in SockTokens : createSocketHandler(s, tok, TRUE)
  \/ \E s \in Sessions : readClose(s)
  \/ \E s \in Sessions : sess[s].ncmd = 0 /\ watch(s, "id1", FALSE)

NextFull == SysFull \/ EnvFull

SpecFull == Init /\ [][NextFull]_vars

\* the pickups: GET requests and the WATCH of a session, around one write
SysPick ==
  \/ \E i \in Slots : Pub(i)
  \/ \E s \in Sessions : watchSend(s)
  \/ \E c \in Chans : fwdPkgPL(c, TRUE)
  \/ \E c \in Chans : fwdPkgSS(c)
  \/ \E s \in Sessions : writeConnPkg(s, TRUE)

EnvPick ==
  \/ EnvWrite(MaxWritesSS)
  \/ \E hex \in SockHex : pickUpPackageHandler(hex)
  \/ \E s \in Sessions, tok \in SockTokens : createPackageWatcherHandler(s, tok, TRUE)
  \/ \E s \in Sessions, tok \in SockTokens : createSocketHandler(s, tok, TRUE)
  \/ \E s \in Sessions, b \in BoxIDs, e \in BOOLEAN :
       sess[s].ncmd < MaxSubs /\ watch(s, b, e)

NextPick == SysPick \/ EnvPick

SpecPick == Init /\ [][NextPick]_vars

Next == NextRest \/ NextPL \/ NextSS \/ NextUp \/ NextCmd \/ NextMsg \/ NextWire \/ NextFull \/ NextPick \/ MsgNext

Spec == Init /\ [][Next]_vars

\* ------------------------------------------------------------ properties
\* the packages request i asked to store in the box
Asked(i, boxID) ==
  {reqs[i].parts[k].pkg :
     k \in {j \in DOMAIN reqs[i].parts : DecodeString(reqs[i].parts[j].hex).bytes = boxID}}

\* the package was written to the box by a committed transaction
Written(boxID, pkg) ==
  \E k \in DOMAIN wlog : boxID \in wlog[k].boxes /\ wlog[k].kv[boxID] = pkg

\* the bucket a transaction leaves, and the transactions of a request
KvAt(n) == IF n = 0 THEN [b \in BoxIDs |-> NoPkg] ELSE wlog[n].kv
Entries(i) == {k \in DOMAIN wlog : wlog[k].req = i}

\* some part of the batch names no box: not hex, or not 16 bytes
InvalidPart(parts) ==
  \E k \in DOMAIN parts :
    LET d == DecodeString(parts[k].hex) IN d.err \/ ByteLen(d.bytes) # dropBoxIDSize

\* No goroutine of the server can take a step. The work of the goroutines is
\* bounded by the inputs received, so under fair scheduling "eventually Q"
\* fails exactly when a state without Q is reached in which none can step.
Quiescent == ~ENABLED SysNext

\* the session is connected and its peer reads what is written
Open(s) == sess[s].kind # "none" /\ ~sess[s].closed /\ ~sess[s].werr

\* every task the session started has returned
AllDone(s) ==
  /\ sess[s].rd = "done" /\ sess[s].wr = "done"
  /\ sess[s].kind = "pl" => sess[s].stp = "done"
  /\ \A c \in OwnChans(s) : fwd[c].pc = "done"

\* C1: a GET of box B answers with the package of the latest write committed
\* to B before it: the p of a PUT B p that returned 200, until the next
\* successful write to B; never an earlier package.
C1_GetReturnsLastWrite ==
  LET id == parseDropBoxID(lastGet.hex)
      ks == {k \in 1..lastGet.at : id.boxID \in wlog[k].boxes}
      w == wlog[CHOOSE k \in ks : \A j \in ks : j <= k].req
  IN (lastGet.status = 200 /\ ks # {}) =>
       IF reqs[w].kind = "put" THEN lastGet.body = reqs[w].parts[1].pkg
       ELSE lastGet.body \in Asked(w, id.boxID)

\* two PUTs of different packages to one box, then a GET that returns the second
C1_Witness ==
  /\ Len(wlog) = 2 /\ lastGet.status = 200 /\ lastGet.at = 2
  /\ reqs[1].kind = "put" /\ reqs[2].kind = "put"
  /\ wlog[1].boxes = {parseDropBoxID(lastGet.hex).boxID}
  /\ wlog[2].boxes = wlog[1].boxes
  /\ reqs[1].parts[1].pkg # reqs[2].parts[1].pkg
  /\ lastGet.body = reqs[wlog[2].req].parts[1].pkg

\* C2: once a session has processed WATCH B and stays open, every PUT B p that
\* starts afterwards and returns 200 is followed by the frame of B and p on the
\* session's socket: when the server has nothing left to do, the frame is there.
C2_PutReachesWatcher ==
  \A s \in Sessions, b \in BoxIDs, i \in Writes :
    ( /\ Open(s) /\ Quiescent
      /\ sess[s].subs[EncodeToString(b)] # NoChan
      /\ reqs[i].kind = "put" /\ reqs[i].status = 200
      /\ i \notin sess[s].since[EncodeToString(b)]
      /\ DecodeString(reqs[i].parts[1].hex).bytes = b )
    => \E k \in DOMAIN sess[s].sock :
         /\ sess[s].sock[k].box = b /\ sess[s].sock[k].src = i
         /\ sess[s].sock[k].pkg = reqs[i].parts[1].pkg

\* C3: when the pickup of WATCH B finds a package x, the frame of B and x
\* reaches the open session's socket with no further PUT; a frame that comes
\* from a pickup always carries a package that was written to the box.
C3_WatchDeliversCurrent ==
  /\ \A s \in Sessions, b \in BoxIDs :
       ( /\ Open(s) /\ Quiescent
         /\ sess[s].subs[EncodeToString(b)] # NoChan
         /\ sess[s].picked[EncodeToString(b)] # NoPkg )
       => \E k \in DOMAIN sess[s].sock :
            /\ sess[s].sock[k].box = b /\ sess[s].sock[k].via = "pickup"
            /\ sess[s].sock[k].pkg = sess[s].picked[EncodeToString(b)]
  /\ \A s \in Sessions : \A k \in DOMAIN sess[s].sock :
       sess[s].sock[k].via = "pickup" =>
         /\ sess[s].sock[k].pkg # NoPkg
         /\ Written(sess[s].sock[k].box, sess[s].sock[k].pkg)

\* C4: after IGNORE B, and until B is watched again, the socket holds no frame
\* of B published by a write request that started after the IGNORE.
C4_IgnoreStopsFrames ==
  \A s \in Sessions, b \in BoxIDs :
    sess[s].ign[EncodeToString(b)] =>
      \A k \in DOMAIN sess[s].sock :
        (sess[s].sock[k].box = b /\ sess[s].sock[k].via = "pub")
          => sess[s].sock[k].src \in sess[s].ignAt[EncodeToString(b)]

\* C5: of two frames of one box on a socket, the later one never carries the
\* package of a write that had returned before the write of the earlier one
\* started.
C5_FifoPerWatcher ==
  \A s \in Sessions : \A k, l \in DOMAIN sess[s].sock :
    ( /\ k < l /\ sess[s].sock[k].box = sess[s].sock[l].box
      /\ sess[s].sock[k].src \in Writes /\ sess[s].sock[l].src \in Writes )
    => sess[s].sock[l].src \notin reqs[sess[s].sock[k].src].after

\* C6: every frame written to a socket carries a package that was written to
\* the box it names, and names a box the session watches at that moment; the
\* one frame allowed for a box no longer watched is a frame in flight, whose
\* write request had started before the IGNORE.
C6_Isolation ==
  [][\A s \in Sessions :
       sess'[s].sock # sess[s].sock =>
         LET f == sess'[s].sock[Len(sess'[s].sock)] IN
         /\ f.box \in BoxIDs
         /\ Written(f.box, f.pkg)
         /\ \/ sess[s].subs[EncodeToString(f.box)] # NoChan
            \/ f.src \in sess[s].ignAt[EncodeToString(f.box)]]_vars

\* C7: once the socket is closed and the server has nothing left to do, no
\* subscription of the session is registered on a bus: not one of its drop-box
\* subscriptions, not its user-message subscription.
C7_CloseUnsubscribes ==
  \A s \in Sessions :
    (sess[s].closed /\ Quiescent) =>
      /\ \A c \in OwnChans(s) : bus[c].st # "live"
      /\ sess[s].msgsSt # "live"

\* C8: once the close signal is set and the server has nothing left to do, the
\* reader, the writer, every forwarder and the stop task have returned.
C8_CloseTerminates ==
  \A s \in Sessions : (sess[s].closed /\ Quiescent) => AllDone(s)

\* C9: a multipart request with an invalid part is answered 400, one that is
\* not answered 200 stores and publishes nothing, and one answered 200 wrote
\* every part in one transaction; the bucket and every pickup show whole
\* transactions only.
C9_MultipartAllOrNone ==
  /\ \A i \in Writes : reqs[i].kind = "multi" =>
       /\ InvalidPart(reqs[i].parts) => reqs[i].status = 400
       /\ reqs[i].status # 200 =>
            Entries(i) = {} /\ reqs[i].pubs = <<>> /\ reqs[i].pc = "done"
       /\ reqs[i].status = 200 =>
            /\ Cardinality(Entries(i)) = 1
            /\ \A k \in Entries(i) :
                 /\ wlog[k].boxes = {DecodeString(reqs[i].parts[j].hex).bytes :
                                       j \in DOMAIN reqs[i].parts}
                 /\ \A b \in wlog[k].boxes : wlog[k].kv[b] \in Asked(i, b)
                 /\ \A b \in BoxIDs \ wlog[k].boxes : wlog[k].kv[b] = KvAt(k - 1)[b]
  /\ kv = KvAt(Len(wlog))
  /\ lastGet.status = 200 =>
       lastGet.body = KvAt(lastGet.at)[parseDropBoxID(lastGet.hex).boxID]

\* a batch rejected for its second part while its first part is valid, and a
\* batch of two boxes stored whole
C9_Witness ==
  \E i, j \in Writes :
    /\ reqs[i].kind = "multi" /\ reqs[i].status = 400
    /\ InvalidPart(reqs[i].parts) /\ parseDropBoxID(reqs[i].parts[1].hex).ok
    /\ Entries(i) = {}
    /\ reqs[j].kind = "multi" /\ reqs[j].status = 200
    /\ \E k \in Entries(j) : Cardinality(wlog[k].boxes) = 2

\* C10: an upgrade request whose token is missing or resolves to user id 0 is
\* never upgraded, on either socket endpoint: it is answered 401 (400 at most,
\* when it is no WebSocket handshake either) and no session is started for it.
C10_NoTokenNoSession ==
  \A s \in Sessions :
    LET v == verifyAccessToken(sess[s].tok) IN
    (sess[s].up # 0 /\ ~v.err /\ v.userID = 0) =>
      /\ sess[s].up \in {401, 400}
      /\ sess[s].kind = "none"
      /\ sess[s].rd = "off" /\ sess[s].wr = "off"
      /\ sess[s].msgsSt = "free"
      /\ OwnChans(s) = {}

\* C11: a NOP, or a WATCH for a box the session already watches, is idempotent:
\* the step leaves the session's subscription map, the bus (its subscribers and
\* their queues), the forwarders, the queue to the writer and the frames on the
\* socket as they were; the current package of the box is not delivered again.
WatchesBox(s, boxID) ==
  /\ ByteLen(boxID) = dropBoxIDSize
  /\ sess[s].subs[EncodeToString(boxID)] # NoChan

NopOrRepeatedWatch(s) ==
  \/ readDiscard(s, "nop")
  \/ \E b \in BoxIDs, e \in BOOLEAN : WatchesBox(s, b) /\ watch(s, b, e)

C11_Idempotent ==
  [][\A s \in Sessions :
       NopOrRepeatedWatch(s) =>
         /\ sess'[s].subs = sess[s].subs
         /\ bus' = bus
         /\ fwd' = fwd
         /\ sess'[s].rd = "read" /\ sess'[s].rtmp = NoItem
         /\ sess'[s].pkgs = sess[s].pkgs
         /\ sess'[s].sock = sess[s].sock]_vars

\* a session that watched a box holding a package, got its one pickup frame,
\* and was then sent WATCH for the same box again: still one subscription,
\* still one frame, nothing in flight
C11_Witness ==
  \E s \in Sessions :
    /\ sess[s].logged = "dup"
    /\ Quiescent /\ Open(s)
    /\ Cardinality({c \in Chans : bus[c].st # "free"}) = 1
    /\ Len(sess[s].sock) = 1 /\ sess[s].sock[1].via = "pickup"

\* C12: in every reachable state, for every session and every box id, the bus
\* holds at most one live subscription of the session on the topic of the box
\* and at most one forwarder of the session is running for the box.
LiveSubs(s, hexID) ==
  {c \in OwnChans(s) : bus[c].st = "live" /\ bus[c].topic = hexID}

RunningFwds(s, boxID) ==
  {c \in OwnChans(s) : fwd[c].box = boxID /\ fwd[c].pc \in {"select", "send"}}

C12_OneSubscriptionPerBox ==
  \A s \in Sessions, b \in BoxIDs :
    /\ Cardinality(LiveSubs(s, EncodeToString(b))) <= 1
    /\ Cardinality(RunningFwds(s, b)) <= 1

\* C13: one PUT of p to a box results in at most two frames carrying p on the
\* socket of a session, in every interleaving of WATCH, IGNORE and PUT.
FramesOfPut(s, i, b) ==
  {k \in DOMAIN sess[s].sock : sess[s].sock[k].box = b /\ sess[s].sock[k].src = i}

C13_AtMostTwoFrames ==
  \A s \in Sessions, i \in Writes, b \in BoxIDs :
    reqs[i].kind = "put" => Cardinality(FramesOfPut(s, i, b)) <= 2

\* C13, amended: one PUT of p results in at most two frames carrying p through
\* each subscription the session made for the box, one from the publish and at
\* most one from the pickup of the WATCH that made the subscription; a WATCH
\* after an IGNORE makes a new subscription, whose pickup carries p once more.
FramesThrough(s, i, c, via) ==
  {k \in DOMAIN sess[s].sock :
     /\ sess[s].sock[k].ch = c /\ sess[s].sock[k].src = i
     /\ sess[s].sock[k].via = via}

C13_AtMostTwoPerSubscription ==
  \A s \in Sessions, i \in Writes, c \in Chans :
    reqs[i].kind = "put" =>
      /\ Cardinality(FramesThrough(s, i, c, "pub")) <= 1
      /\ Cardinality(FramesThrough(s, i, c, "pickup")) <= 1

\* the duplicate: the package of one PUT came through one subscription twice,
\* once picked up by the WATCH and once published
C13_Witness ==
  \E s \in Sessions, i \in Writes, c \in Chans :
    /\ reqs[i].kind = "put"
    /\ FramesThrough(s, i, c, "pub") # {}
    /\ FramesThrough(s, i, c, "pickup") # {}

\* C14: a request whose box id does not hex-decode to exactly 16 bytes is
\* rejected at the boundary: PUT and GET /drop-boxes/{box_id} answer 400, the
\* request has no transaction (the bucket is what the logged transactions
\* left) and nothing to publish.
InvalidID(hex) ==
  LET d == DecodeString(hex) IN d.err \/ ByteLen(d.bytes) # dropBoxIDSize

C14_BadIDRejected ==
  /\ \A i \in Writes :
       (reqs[i].kind = "put" /\ InvalidID(reqs[i].parts[1].hex)) =>
         /\ reqs[i].status = 400 /\ reqs[i].pc = "done"
         /\ Entries(i) = {}
         /\ reqs[i].pubs = <<>> /\ reqs[i].targets = <<>>
  /\ (lastGet.status # 0 /\ InvalidID(lastGet.hex)) =>
       lastGet.status = 400 /\ lastGet.body = NoPkg
  /\ kv = KvAt(Len(wlog))
  /\ \A k \in DOMAIN wlog : wlog[k].boxes \subseteq BoxIDs

\* a PUT with a 15-byte id answered 400 after a PUT that stored a package, and
\* a GET with a string that is no hex answered 400
C14_Witness ==
  \E i, j \in Writes :
    /\ reqs[j].kind = "put" /\ reqs[j].status = 200 /\ Entries(j) # {}
    /\ reqs[i].kind = "put" /\ reqs[i].status = 400
    /\ ~DecodeString(reqs[i].parts[1].hex).err
    /\ ByteLen(DecodeString(reqs[i].parts[1].hex).bytes) = dropBoxIDSize - 1
    /\ reqs[i].parts[1].pkg # NoPkg
    /\ \E b \in BoxIDs : kv[b] # NoPkg
    /\ lastGet.status = 400 /\ DecodeString(lastGet.hex).err

\* C15: a session started for user U is subscribed to topic U of the message
\* bus; every payload published on topic U while the session is running is
\* eventually written to its socket as one frame with the same content, in the
\* order published, and no payload published for another user is written to it.
MsgFrames(s) ==
  SelectSeq(sess[s].sock, LAMBDA f : f.via = "msg")

C15_MessagesReachSocket ==
  \A s \in Sessions :
    sess[s].kind = "ss" =>
      /\ sess[s].msgsSt = "live"
      /\ \A k \in DOMAIN MsgFrames(s) : MsgFrames(s)[k].src = sess[s].user
      /\ Len(MsgFrames(s)) <= Len(sess[s].heard)
      /\ \A k \in DOMAIN MsgFrames(s) : MsgFrames(s)[k].pkg = sess[s].heard[k]
      /\ (Quiescent /\ Open(s)) => Len(MsgFrames(s)) = Len(sess[s].heard)

\* C16: whenever a package p is published on the topic of box B by the PUT or
\* the multipart handler, the transaction that wrote p to B has committed; a
\* pickup of B made once the notification exists returns p or the package of a
\* later write to B, never that of an earlier write and never nothing.
\* The notifications that exist, as <<request, box, package>>: in a
\* subscriber's queue, held by a forwarder, queued to the writer, on a socket.
Notified ==
  UNION {
    {<<bus[c].buf[k].src, DecodeString(bus[c].topic).bytes, bus[c].buf[k].pkg>> :
       k \in {j \in DOMAIN bus[c].buf : bus[c].buf[j].via = "pub"}} : c \in Chans}
  \cup {<<fwd[c].item.src, fwd[c].box, fwd[c].item.pkg>> :
         c \in {d \in Chans : fwd[d].item.via = "pub"}}
  \cup UNION {
    {<<sess[s].pkgs[k].src, sess[s].pkgs[k].box, sess[s].pkgs[k].pkg>> :
       k \in {j \in DOMAIN sess[s].pkgs : sess[s].pkgs[j].via = "pub"}} : s \in Sessions}
  \cup UNION {
    {<<sess[s].sock[k].src, sess[s].sock[k].box, sess[s].sock[k].pkg>> :
       k \in {j \in DOMAIN sess[s].sock : sess[s].sock[j].via = "pub"}} : s \in Sessions}

C17_StoreFailureIs500 ==
  \A i \in Writes :
    reqs[i].fault =>
      /\ reqs[i].status = 500
      /\ reqs[i].pubs = <<>> /\ reqs[i].targets = <<>> /\ reqs[i].pc = "done"
      /\ Entries(i) = {}

\* C18: when a socket write fails in the writer, the session closes without a
\* reader error: once the goroutines have come to rest the close signal is
\* set, the session's subscriptions are released, its forwarders have
\* returned and the socket is closed.
C18_WriteFailureCloses ==
  \A s \in Sessions :
    (sess[s].werr /\ Quiescent) =>
      /\ sess[s].closed
      /\ sess[s].connClosed
      /\ \A c \in OwnChans(s) : bus[c].st # "live" /\ fwd[c].pc = "done"

\* C19: a client-error command (an empty frame, an opcode other than 0, 1, 2,
\* a WATCH whose id is not 16 bytes, an IGNORE for a box the session does not
\* watch) is discarded: the step changes nothing of the session but its count
\* of frames read and its log, so the session keeps running with the same
\* subscriptions, forwarders and writer, and the bus is untouched.
ClientError(s) ==
  \/ readDiscard(s, "empty")
  \/ readDiscard(s, "unknown")
  \/ \E b \in BoxIDs \cup {ShortID}, e \in BOOLEAN :
       ByteLen(b) # dropBoxIDSize /\ watch(s, b, e)
  \/ \E b \in BoxIDs \cup {ShortID} :
       ~WatchesBox(s, b) /\ (ignore(s, b) \/ ignoreBox(s, b))

C19_ClientErrorDiscarded ==
  [][\A s \in Sessions :
       ClientError(s) =>
         /\ sess'[s] = [sess[s] EXCEPT !.ncmd = sess'[s].ncmd,
                                       !.logged = sess'[s].logged]
         /\ sess'[s].logged \in {"empty", "unknown", "badlen", "nosub"}
         /\ sess'[s].rd = "read" /\ ~sess'[s].closed
         /\ bus' = bus /\ fwd' = fwd /\ panicked' = panicked]_vars

\* a running session that watches a box, with its forwarder and its writer
\* waiting, right after it discarded an IGNORE for a box it does not watch
C19_Witness ==
  \E s \in Sessions :
    /\ sess[s].logged = "nosub" /\ sess[s].ncmd = 2
    /\ Open(s) /\ sess[s].rd = "read" /\ sess[s].wr = "recv"
    /\ \E h \in HexKeys :
         /\ sess[s].subs[h] # NoChan
         /\ bus[sess[s].subs[h]].st = "live"
         /\ fwd[sess[s].subs[h]].pc = "select"
    /\ Cardinality({c \in Chans : bus[c].st # "free"}) = 1

\* C20: within one session only the writer task writes to the socket, one
\* frame at a time: every step that changes what is on a socket is a step of
\* the session's writer, which was waiting to receive, and appends exactly the
\* one whole frame the writer received (from the queue of packages, from the
\* message queue, or handed over by a forwarder), so frames of the message
\* stream and of different forwarders never interleave.
WriterReceives(s, f) ==
  IF sess[s].kind = "ss"
  THEN \/ /\ sess[s].pkgs # <<>>
          /\ f = Head(sess[s].pkgs)
          /\ sess'[s].pkgs = Tail(sess[s].pkgs) /\ sess'[s].msgs = sess[s].msgs
       \/ /\ sess[s].msgs # <<>>
          /\ f.via = "msg" /\ f.pkg = Head(sess[s].msgs).pkg
          /\ sess'[s].msgs = Tail(sess[s].msgs) /\ sess'[s].pkgs = sess[s].pkgs
  ELSE \E c \in OwnChans(s) :
         /\ fwd[c].pc \in {"select", "send"}
         /\ fwd'[c].pc = "select" /\ fwd'[c].item = NoItem
         /\ f.ch = c /\ f.box = fwd[c].box
         /\ IF fwd[c].pc = "send" THEN f.pkg = fwd[c].item.pkg /\ bus'[c] = bus[c]
            ELSE /\ bus[c].buf # <<>>
                 /\ f.pkg = Head(bus[c].buf).pkg
                 /\ bus'[c].buf = Tail(bus[c].buf)

C20_OnlyWriterWrites ==
  [][\A s \in Sessions :
       sess'[s].sock # sess[s].sock =>
         /\ sess[s].wr = "recv" /\ ~sess[s].connClosed
         /\ sess'[s].wr = "recv"
         /\ Len(sess'[s].sock) = Len(sess[s].sock) + 1
         /\ SubSeq(sess'[s].sock, 1, Len(sess[s].sock)) = sess[s].sock
         /\ WriterReceives(s, sess'[s].sock[Len(sess'[s].sock)])]_vars

\* a socket that carries, one after the other and each whole, a user message
\* and the packages of two boxes, which came through two forwarders
C20_Witness ==
  \E s \in Sessions :
    /\ \E k \in DOMAIN sess[s].sock : sess[s].sock[k].via = "msg"
    /\ \E j, k \in DOMAIN sess[s].sock :
         /\ sess[s].sock[j].via # "msg" /\ sess[s].sock[k].via # "msg"
         /\ sess[s].sock[j].box # sess[s].sock[k].box
         /\ sess[s].sock[j].ch # sess[s].sock[k].ch

\* C21: the outcome of a write request does not depend on the publish. While a
\* handler (or the multipart handler's goroutine) is publishing, also when it
\* is blocked on a full subscriber queue, the response is the 200 already sent
\* and the store holds the committed transaction; no step of Pub changes the
\* response or the store.
C21_ResponseBeforePublish ==
  /\ [](/\ \A i \in Slots :
            reqs[i].pc = "pub" => reqs[i].status = 200 /\ Cardinality(Entries(i)) = 1
        /\ kv = KvAt(Len(wlog)))
  /\ [][\A i \in Slots :
          Pub(i) => /\ reqs'[i].status = reqs[i].status
                    /\ kv' = kv /\ wlog' = wlog]_vars

\* a PUT whose Pub is blocked for good on a full subscriber queue, answered 200
\* and with its package in the box
C21_Witness ==
  \E i \in Slots :
    /\ reqs[i].kind = "put" /\ reqs[i].pc = "pub" /\ reqs[i].targets # <<>>
    /\ Len(bus[Head(reqs[i].targets)].buf) = SubCap
    /\ Quiescent
    /\ reqs[i].status = 200
    /\ pickUpPackage("id1") = reqs[i].parts[1].pkg
    /\ \E j \in Slots : reqs[j].kind = "multi" /\ reqs[j].status = 200 /\ reqs[j].pc = "pub"

\* C22: pickup is non-destructive. A GET of a box and the pickup of a WATCH
\* leave the store as it is and return the package the box holds, so all the
\* pickups between two writes to the box return the same package.
C22_PickupKeepsStore ==
  /\ [][\A hex \in HexInputs :
          pickUpPackageHandler(hex) =>
            /\ kv' = kv /\ wlog' = wlog
            /\ lastGet'.status = 200 =>
                 lastGet'.body = kv[DecodeString(hex).bytes]]_vars
  /\ [][\A s \in Sessions, b \in BoxIDs, e \in BOOLEAN :
          watch(s, b, e) =>
            /\ kv' = kv /\ wlog' = wlog
            /\ (sess'[s].subs # sess[s].subs /\ ~(sess[s].kind = "ss" /\ e)) =>
                 sess'[s].picked[EncodeToString(b)] = kv[b]]_vars

\* a GET and the pickup of a WATCH both returned the package of the one write
\* to the box, the pickup frame is on the socket, and the box still holds it
C22_Witness ==
  \E s \in Sessions, b \in BoxIDs :
    /\ kv[b] # NoPkg /\ Len(wlog) = 1
    /\ lastGet.status = 200 /\ DecodeString(lastGet.hex).bytes = b
    /\ lastGet.at = 1 /\ lastGet.body = kv[b]
    /\ sess[s].picked[EncodeToString(b)] = kv[b]
    /\ \E k \in DOMAIN sess[s].sock :
         /\ sess[s].sock[k].via = "pickup" /\ sess[s].sock[k].box = b
         /\ sess[s].sock[k].pkg = kv[b]


\* C23: a WATCH B of a socketServer session whose store pickup fails leaves the
\* session reading, registers the subscription and starts its forwarder without
\* sending a frame; and every PUT to B that starts afterwards and returns 200
\* is on the open session's socket when the server has nothing left to do.
C23_FailedPickupStillWatches ==
  /\ [][\A s \in Sessions, b \in BoxIDs :
          ( /\ watch(s, b, TRUE) /\ sess[s].kind = "ss"
            /\ ~Watched(s, EncodeToString(b)) )
          => /\ Reading(s) /\ sess'[s].rd = "read" /\ ~sess'[s].closed
             /\ sess'[s].logged = "pickerr"
             /\ sess'[s].subs[EncodeToString(b)] \in Chans
             /\ bus'[sess'[s].subs[EncodeToString(b)]].st = "live"
             /\ bus'[sess'[s].subs[EncodeToString(b)]].topic = EncodeToString(b)
             /\ fwd'[sess'[s].subs[EncodeToString(b)]].pc = "select"
             /\ bus'[sess'[s].subs[EncodeToString(b)]].buf = <<>>
             /\ sess'[s].sock = sess[s].sock]_vars
  /\ [](\A s \in Sessions, b \in BoxIDs, i \in Writes :
          ( /\ Open(s) /\ Quiescent
            /\ sess[s].kind = "ss" /\ sess[s].ncmd = 1 /\ sess[s].logged = "pickerr"
            /\ sess[s].subs[EncodeToString(b)] # NoChan
            /\ reqs[i].kind = "put" /\ reqs[i].status = 200
            /\ i \notin sess[s].since[EncodeToString(b)]
            /\ DecodeString(reqs[i].parts[1].hex).bytes = b )
          => \E k \in DOMAIN sess[s].sock :
               /\ sess[s].sock[k].box = b /\ sess[s].sock[k].src = i
               /\ sess[s].sock[k].pkg = reqs[i].parts[1].pkg)


\* C24: whatever WATCH and IGNORE frames a session processes and whenever it
\* closes, Unsub is called at most once with each subscription handle; a
\* handle that is closed was unsubscribed exactly once.
C24_UnsubAtMostOnce ==
  \A c \in Chans :
    /\ bus[c].nunsub <= 1
    /\ bus[c].st = "closed" <=> bus[c].nunsub = 1

C24_Witness ==
  \E c \in Chans, d \in Chans :
    /\ c # d /\ Owner(c) \in Sessions /\ Owner(c) = Owner(d) /\ fwd[c].box = fwd[d].box
    /\ sess[Owner(c)].closed
    /\ bus[c].nunsub = 1 /\ fwd[c].pc = "done"
    /\ bus[d].nunsub = 1 /\ fwd[d].pc = "done"


\* C25: no channel of a session is closed a second time and nothing is sent
\* on a closed channel: no step of a reader, forwarder, writer or stop task
\* panics on a double close or on a send to a closed channel.
C25_NoChannelPanic ==
  /\ ~panicked
  /\ \A c \in Chans :
       (Owner(c) \in Sessions /\ fwd[c].pc = "send") => ~sess[Owner(c)].pkgsClosed


\* C26: in an open socketServer session that watched B2, then B1, and then
\* processed IGNORE B1, once the server has nothing left to do the writer is
\* still receiving from its channels, so that user messages reach the socket,
\* and every PUT to B2 that started after WATCH B2 and returned 200 has its
\* frame on the socket.
C26_IgnoreLeavesOtherBoxes ==
  \A s \in Sessions, b1 \in BoxIDs, b2 \in BoxIDs :
    ( /\ b1 # b2 /\ sess[s].kind = "ss" /\ Open(s) /\ Quiescent
      /\ sess[s].ign[EncodeToString(b1)]
      /\ sess[s].subs[EncodeToString(b2)] # NoChan
      /\ \E c1 \in OwnChans(s) :
           /\ fwd[c1].box = b1 /\ bus[c1].st = "closed"
           /\ sess[s].subs[EncodeToString(b2)] < c1 )
    => /\ ~panicked
       /\ sess[s].wr = "recv" /\ ~sess[s].pkgsClosed
       /\ \A i \in Writes :
            ( /\ reqs[i].kind = "put" /\ reqs[i].status = 200
              /\ i \notin sess[s].since[EncodeToString(b2)]
              /\ reqs[i].parts[1].hex = EncodeToString(b2) )
            => \E k \in DOMAIN sess[s].sock :
                 /\ sess[s].sock[k].box = b2 /\ sess[s].sock[k].src = i
                 /\ sess[s].sock[k].pkg = reqs[i].parts[1].pkg


\* C27: the processing of a WATCH always completes: when the server has nothing
\* left to do, no reader is still in the send of the picked-up package onto the
\* queue of the subscription it has just made.
C27_WatchCompletes ==
  \A s \in Sessions :
    (Quiescent /\ sess[s].kind # "none") => sess[s].rd # "send"


\* C28: a closed session never makes a later publisher block for good: when
\* the server has nothing left to do, every PUT to a box the session watched
\* when its socket closed, started after the close, has completed its Pub and
\* its handler has returned.
C28_ClosedSessionFreesPublishers ==
  \A s \in Sessions, b \in BoxIDs, i \in Slots :
    ( /\ Quiescent
      /\ sess[s].kind # "none" /\ sess[s].closed
      /\ sess[s].subs[EncodeToString(b)] # NoChan
      /\ reqs[i].kind = "put" /\ reqs[i].status = 200
      /\ i \notin sess[s].closedAt
      /\ reqs[i].parts[1].hex = EncodeToString(b) )
    => reqs[i].pc = "done"


\* C29: convergence. For an open session that has watched B without
\* interruption, once every write request has finished, every queue is empty
\* and the server has nothing left to do, the last frame of B on the socket
\* carries the package stored in B. The write requests name their boxes in
\* lower-case hex, the spelling of the topic the session subscribed to.
C29_Converges ==
  \A s \in Sessions, b \in BoxIDs :
    LET ks == {k \in DOMAIN sess[s].sock : sess[s].sock[k].box = b} IN
    ( /\ Quiescent /\ Open(s)
      /\ sess[s].subs[EncodeToString(b)] # NoChan
      /\ Cardinality({c \in OwnChans(s) : fwd[c].box = b}) = 1
      /\ \A i \in Slots : reqs[i].pc # "pub"
      /\ \A i \in Slots : \A k \in DOMAIN reqs[i].parts : reqs[i].parts[k].hex \in HexKeys
      /\ \A c \in Chans : bus[c].buf = <<>> /\ fwd[c].pc # "send"
      /\ sess[s].pkgs = <<>>
      /\ kv[b] # NoPkg )
    => /\ ks # {}
       /\ sess[s].sock[CHOOSE k \in ks : \A j \in ks : j <= k].pkg = kv[b]


\* C30: in an open session that processed WATCH B, IGNORE B and WATCH B again,
\* every PUT of p to B that started after the second WATCH and returned 200 has,
\* once the server has nothing left to do, exactly one frame on the socket, and
\* that frame carries B and p.
C30_RewatchDeliversOnce ==
  \A s \in Sessions, b \in BoxIDs, i \in Writes :
    LET fs == {k \in DOMAIN sess[s].sock :
                 sess[s].sock[k].box = b /\ sess[s].sock[k].src = i} IN
    ( /\ Quiescent /\ Open(s)
      /\ sess[s].subs[EncodeToString(b)] # NoChan
      /\ Cardinality({c \in OwnChans(s) : fwd[c].box = b}) = 2
      /\ reqs[i].kind = "put" /\ reqs[i].status = 200
      /\ i \notin sess[s].since[EncodeToString(b)]
      /\ reqs[i].parts[1].hex = EncodeToString(b) )
    => /\ Cardinality(fs) = 1
       /\ \A k \in fs : sess[s].sock[k].pkg = reqs[i].parts[1].pkg

====
